---- MODULE Spec2Model ----
(***************************************************************************)
(* Model of package command (src/command/command.go): the trim             *)
(* post-modifier, the Runnable's Run* methods over os/exec, and the        *)
(* command factory.                                                        *)
(*                                                                         *)
(* Text is a sequence of one-character strings.  An error value is a       *)
(* record [join, errs]: errs is the sequence of the elementary errors it   *)
(* carries (empty for nil), join tells an errors.Join wrapper apart.       *)
(***************************************************************************)
EXTENDS Integers, Sequences, FiniteSets, TLC

(* ------------------------------ bounds -------------------------------- *)
\* longest content given to a post-modifier on its own
MaxLen == 3
\* longest trim character set
MaxCut == 2
\* longest modifier list given to RunStdoutStr
MaxMods == 2
\* most characters a process writes before it ends, where the text matters
MaxCap == 2
\* most characters a process writes before it ends, elsewhere
MaxOut == 1
\* most launches requested in one behaviour
MaxLaunch == 2

Alphabet == {"a", "b"}
Threads == {"t1", "t2"}
Ctxs == {"c1", "c2"}
Rns == {"r1", "r2"}
Cmds == {"p", "q"}
ArgVals == {"x", "y"}
CallerSlice == <<"x", "y">>
Pids == {"pid1", "pid2"}
Fds == {"stdout", "stderr"}
ExitCodes == {0, 1}
Methods == {"Run", "RunStdout", "RunStdoutStr", "RunCombined", "RunCombinedStr", "RunToWriter"}

SeqsUpTo(S, n) == UNION {[1..k -> S] : k \in 0..n}

(* ------------------------------ errors -------------------------------- *)
Nil == [join |-> FALSE, errs |-> <<>>]
NewErr(kind, n) == [join |-> FALSE, errs |-> <<[k |-> kind, n |-> n]>>]
IsNil(e) == e.errs = <<>>
ErrKind(e) == IF e.join THEN "join" ELSE IF e.errs = <<>> THEN "nil" ELSE e.errs[1].k
\* errors.Is-style containment of an elementary error
Contains(e, x) == \E i \in 1..Len(e.errs) : e.errs[i] = x.errs[1]

\* errors.Join: nil operands are dropped, nil when nothing is left
Join(e1, e2) ==
    IF IsNil(e1) /\ IsNil(e2) THEN Nil
    ELSE [join |-> TRUE, errs |-> e1.errs \o e2.errs]

(* ------------------------- trim post-modifier ------------------------- *)
PostModifierTrimRight == 0
PostModifierTrimLeft == 1
PostModifierTrimBoth == 2

NewTrimPostModifier(option, char) == [trimOpt |-> option, trimChar |-> char]

ContainsRune(cutset, c) == \E i \in 1..Len(cutset) : cutset[i] = c

\* a trim that drops at most one trailing character
TrimRightOnce(s, cutset) ==
    IF s = <<>> \/ cutset = <<>> THEN s
    ELSE IF ContainsRune(cutset, s[Len(s)]) THEN SubSeq(s, 1, Len(s) - 1) ELSE s

RECURSIVE TrimRight(_, _)
TrimRight(s, cutset) ==
    IF s = <<>> \/ cutset = <<>> THEN s
    ELSE IF ContainsRune(cutset, s[Len(s)])
         THEN TrimRight(SubSeq(s, 1, Len(s) - 1), cutset)
         ELSE s

RECURSIVE TrimLeft(_, _)
TrimLeft(s, cutset) ==
    IF s = <<>> \/ cutset = <<>> THEN s
    ELSE IF ContainsRune(cutset, s[1])
         THEN TrimLeft(SubSeq(s, 2, Len(s)), cutset)
         ELSE s

Trim(s, cutset) == TrimLeft(TrimRight(s, cutset), cutset)

\* a process whose default branch hands the content back with the error
processKeepsContent(t, content) ==
    IF t.trimOpt = PostModifierTrimRight THEN [out |-> TrimRight(content, t.trimChar), err |-> Nil]
    ELSE IF t.trimOpt = PostModifierTrimLeft THEN [out |-> TrimLeft(content, t.trimChar), err |-> Nil]
    ELSE IF t.trimOpt = PostModifierTrimBoth THEN [out |-> Trim(content, t.trimChar), err |-> Nil]
    ELSE [out |-> content, err |-> NewErr("unknownTrim", t.trimOpt)]

process(t, content) ==
    IF t.trimOpt = PostModifierTrimRight THEN [out |-> TrimRight(content, t.trimChar), err |-> Nil]
    ELSE IF t.trimOpt = PostModifierTrimLeft THEN [out |-> TrimLeft(content, t.trimChar), err |-> Nil]
    ELSE IF t.trimOpt = PostModifierTrimBoth THEN [out |-> Trim(content, t.trimChar), err |-> Nil]
    ELSE [out |-> <<>>, err |-> NewErr("unknownTrim", t.trimOpt)]

(* ------------------------ os/exec, as it is used ----------------------- *)
\* A process slot: st is "free", "running", "exited" (by itself, with code)
\* or "killed" (by the context watcher).  sig is the context error the
\* watcher recorded when its kill was delivered ("none" before that), cwr
\* tells that the context became done while the process was running, out is
\* what the process wrote, in the order written.
NoProc == [st |-> "free", owner |-> "t1", ctx |-> "c1", code |-> 0,
           sig |-> "none", cwr |-> FALSE, out |-> <<>>]

CtxErr(why) == NewErr("ctx", IF why = "canceled" THEN 0 ELSE 1)

\* the error Cmd.Wait reports for an ended process
WaitErr(p) ==
    IF p.st = "killed" THEN NewErr("signal", 9)
    ELSE IF p.code # 0 THEN NewErr("exit", p.code)
    ELSE IF p.sig # "none" THEN CtxErr(p.sig)
    ELSE Nil

\* what one launch came to: everything written and the error of Start/Wait
Ended(p) == [out |-> p.out, err |-> WaitErr(p)]
NotStarted(e) == [out |-> <<>>, err |-> e]

RECURSIVE Stream(_, _)
Stream(w, fd) ==
    IF w = <<>> THEN <<>>
    ELSE (IF w[1].fd = fd THEN <<w[1].ch>> ELSE <<>>) \o Stream(Tail(w), fd)

Combined(w) == [i \in 1..Len(w) |-> w[i].ch]

\* Cmd.Output and Cmd.CombinedOutput hand back the buffer whatever Run says
Output(x) == [out |-> Stream(x.out, "stdout"), err |-> x.err]
CombinedOutput(x) == [out |-> Combined(x.out), err |-> x.err]

\* string(bytes)
String(b) == [i \in 1..Len(b) |-> b[i]]

(* --------------------------- Runnable methods -------------------------- *)
commandRequest(ctx, cmd, args) == [made |-> TRUE, ctx |-> ctx, cmd |-> cmd, args |-> args]
NoRequest == [made |-> FALSE, ctx |-> "c1", cmd |-> "p", args |-> "caller"]

\* an exec.CommandContext that passes the arguments in reverse
ExecCommandContextReversed(e, h) ==
    [ctx |-> e.ctx, cmd |-> e.cmd,
     args |-> [i \in 1..Len(h[e.args]) |-> h[e.args][Len(h[e.args]) + 1 - i]]]

\* exec.CommandContext(e.ctx, e.cmd, e.args...): h is the storage the slice
\* e.args points into
ExecCommandContext(e, h) == [ctx |-> e.ctx, cmd |-> e.cmd, args |-> h[e.args]]

Run(x) == [out |-> <<>>, err |-> x.err, log |-> <<>>]

RunStdout(x) == [out |-> Output(x).out, err |-> Output(x).err, log |-> <<>>]

RunCombined(x) == [out |-> CombinedOutput(x).out, err |-> CombinedOutput(x).err, log |-> <<>>]

\* a loop that substitutes the failing modifier's own (empty) output
RECURSIVE modifierLoopEmptyOnFail(_, _, _, _, _)
modifierLoopEmptyOnFail(result, err, modifiers, i, log) ==
    IF i > Len(modifiers) THEN [out |-> result, err |-> Nil, log |-> log]
    ELSE LET pr == process(modifiers[i], result)
             log2 == Append(log, [i |-> i, in |-> result])
         IN  IF ~IsNil(pr.err)
             THEN [out |-> pr.out, err |-> Join(err, pr.err), log |-> log2]
             ELSE modifierLoopEmptyOnFail(pr.out, err, modifiers, i + 1, log2)

\* a loop that notes the failure and carries on with the remaining modifiers
RECURSIVE modifierLoopNoStop(_, _, _, _, _)
modifierLoopNoStop(result, err, modifiers, i, log) ==
    IF i > Len(modifiers) THEN [out |-> result, err |-> err, log |-> log]
    ELSE LET pr == process(modifiers[i], result)
             log2 == Append(log, [i |-> i, in |-> result])
         IN  IF ~IsNil(pr.err)
             THEN modifierLoopNoStop(result, Join(err, pr.err), modifiers, i + 1, log2)
             ELSE modifierLoopNoStop(pr.out, err, modifiers, i + 1, log2)

\* the for loop of RunStdoutStr; log notes each process call and its input
RECURSIVE modifierLoop(_, _, _, _, _)
modifierLoop(result, err, modifiers, i, log) ==
    IF i > Len(modifiers) THEN [out |-> result, err |-> Nil, log |-> log]
    ELSE LET pr == process(modifiers[i], result)
             log2 == Append(log, [i |-> i, in |-> result])
         IN  IF ~IsNil(pr.err)
             THEN [out |-> result, err |-> Join(err, pr.err), log |-> log2]
             ELSE modifierLoop(pr.out, err, modifiers, i + 1, log2)

\* a RunStdoutStr that goes on to the modifiers whatever RunStdout returned
RunStdoutStrNoErrCheck(x, modifiers) ==
    LET r == RunStdout(x)
    IN  modifierLoop(String(r.out), r.err, modifiers, 1, <<>>)

RunStdoutStr(x, modifiers) ==
    LET r == RunStdout(x)
    IN  IF ~IsNil(r.err) THEN [out |-> <<>>, err |-> r.err, log |-> <<>>]
        ELSE modifierLoop(String(r.out), r.err, modifiers, 1, <<>>)

RunCombinedStr(x) ==
    LET r == RunCombined(x)
    IN  IF ~IsNil(r.err) THEN [out |-> <<>>, err |-> r.err, log |-> <<>>]
        ELSE [out |-> String(r.out), err |-> Nil, log |-> <<>>]

\* the sinks receive the streams directly; the call itself returns the error
RunToWriter(x, w) == [out |-> <<>>, err |-> x.err, log |-> <<>>]
Sink(x, w, fd) == IF w[fd] THEN Stream(x.out, fd) ELSE <<>>

Result(m, x, modifiers, w) ==
    CASE m = "Run" -> Run(x)
      [] m = "RunStdout" -> RunStdout(x)
      [] m = "RunStdoutStr" -> RunStdoutStr(x, modifiers)
      [] m = "RunCombined" -> RunCombined(x)
      [] m = "RunCombinedStr" -> RunCombinedStr(x)
      [] m = "RunToWriter" -> RunToWriter(x, w)

(* -------------------------------- state -------------------------------- *)
VARIABLES
    tm,        \* the trim post-modifier under study
    tin,       \* the content handed to it
    tr1,       \* what process returned for tin
    tr2,       \* what process returned for tr1's output
    ctxs,      \* each context: "none", "canceled" or "deadline"
    heap,      \* backing storage of argument slices: the caller's and each Runnable's own
    supplied,  \* the argument list each Runnable was created with
    rn,        \* the Runnables the factory has made
    thr,       \* the callers' threads and the call each is in (n: which launch it made)
    procs,     \* the operating system's processes
    launches   \* commands handed to os/exec so far

trimVars == <<tm, tin, tr1, tr2>>
runVars == <<ctxs, heap, supplied, rn, thr, procs, launches>>
vars == <<tm, tin, tr1, tr2, ctxs, heap, supplied, rn, thr, procs, launches>>

NoRes == [done |-> FALSE, out |-> <<>>, err |-> Nil]
NoSinks == [stdout |-> FALSE, stderr |-> FALSE]
NoCmd == [ctx |-> "c1", cmd |-> "", args |-> <<>>]
Idle == [pc |-> "idle", n |-> 0, m |-> "Run", r |-> "r1", mods |-> <<>>, w |-> NoSinks,
         c |-> NoCmd, pid |-> "pid1", out |-> <<>>, err |-> Nil, log |-> <<>>,
         x |-> [out |-> <<>>, err |-> Nil], ps |-> NoProc]

TrimIdle ==
    /\ tm = NewTrimPostModifier(PostModifierTrimRight, <<>>)
    /\ tin = <<>>
    /\ tr1 = NoRes
    /\ tr2 = NoRes

RunIdle ==
    /\ ctxs = [c \in Ctxs |-> "none"]
    /\ heap = [a \in {"caller"} \cup Rns |-> IF a = "caller" THEN CallerSlice ELSE <<>>]
    /\ supplied = [r \in Rns |-> <<>>]
    /\ rn = [r \in Rns |-> NoRequest]
    /\ thr = [t \in Threads |-> Idle]
    /\ procs = [p \in Pids |-> NoProc]
    /\ launches = 0

(* --------------------------- post-modifier runs ------------------------ *)
TrimOptions == {-1, 0, 1, 2, 3, 4}

Process1 ==
    /\ ~tr1.done
    /\ tr1' = [done |-> TRUE, out |-> process(tm, tin).out, err |-> process(tm, tin).err]
    /\ UNCHANGED <<tm, tin, tr2>>
    /\ UNCHANGED runVars

Process2 ==
    /\ tr1.done /\ ~tr2.done
    /\ tr2' = [done |-> TRUE, out |-> process(tm, tr1.out).out, err |-> process(tm, tr1.out).err]
    /\ UNCHANGED <<tm, tin, tr1>>
    /\ UNCHANGED runVars

InitTrim ==
    /\ tm \in {NewTrimPostModifier(o, c) : o \in TrimOptions, c \in SeqsUpTo(Alphabet, MaxCut)}
    /\ tin \in SeqsUpTo(Alphabet, MaxLen)
    /\ tr1 = NoRes
    /\ tr2 = NoRes
    /\ RunIdle

NextTrim == Process1 \/ Process2

SpecTrim == InitTrim /\ [][NextTrim]_vars

(* ------------------------------- factory ------------------------------- *)
\* execCmdFactory.Command: the request keeps the variadic slice it was given.
\* spread tells that the caller passed its own slice (args...); otherwise
\* the compiler built a fresh slice from the listed arguments.
Command(r, ctx, cmd, args, spread) ==
    /\ ~rn[r].made
    /\ spread => args = heap["caller"]
    /\ rn' = [rn EXCEPT ![r] = commandRequest(ctx, cmd, IF spread THEN "caller" ELSE r)]
    /\ heap' = IF spread THEN heap ELSE [heap EXCEPT ![r] = args]
    /\ supplied' = [supplied EXCEPT ![r] = args]
    /\ UNCHANGED <<ctxs, thr, procs, launches>>
    /\ UNCHANGED trimVars

\* the caller writes into the slice it owns
CallerMutate(i, v) ==
    /\ i \in 1..Len(heap["caller"])
    /\ heap["caller"][i] # v
    /\ heap' = [heap EXCEPT !["caller"][i] = v]
    /\ UNCHANGED <<ctxs, supplied, rn, thr, procs, launches>>
    /\ UNCHANGED trimVars

(* ----------------------------- a Run* call ----------------------------- *)
\* the call's record once it has returned: x is what os/exec made of the
\* launch, p the process as it ended (NoProc when none was started)
Returned(call, x, p) ==
    LET res == Result(call.m, x, call.mods, call.w)
    IN  [call EXCEPT !.pc = "returned", !.out = res.out, !.err = res.err,
                     !.log = res.log, !.x = x, !.ps = p]

\* Entry of a Run* method up to Cmd.Start.  found = FALSE: the program
\* cannot be started.  A context that is already done makes Start return
\* its error.  Otherwise the process runs and the call waits for it.
Launch(t, r, m, modifiers, w, found) ==
    /\ thr[t].pc # "waiting"
    /\ rn[r].made
    /\ launches < MaxLaunch
    /\ launches' = launches + 1
    /\ LET c == ExecCommandContext(rn[r], heap)
           call == [Idle EXCEPT !.n = launches + 1, !.m = m, !.r = r, !.mods = modifiers, !.w = w, !.c = c]
       IN  IF ~found
           THEN /\ thr' = [thr EXCEPT ![t] =
                      Returned(call, NotStarted(NewErr("launch", 0)), NoProc)]
                /\ procs' = procs
           ELSE IF ctxs[c.ctx] # "none"
           THEN /\ thr' = [thr EXCEPT ![t] =
                      Returned(call, NotStarted(CtxErr(ctxs[c.ctx])), NoProc)]
                /\ procs' = procs
           ELSE \E pid \in Pids :
                /\ procs[pid].st = "free"
                /\ pid = "pid1" \/ procs["pid1"].st # "free"
                /\ procs' = [procs EXCEPT ![pid] =
                       [NoProc EXCEPT !.st = "running", !.owner = t, !.ctx = c.ctx]]
                /\ thr' = [thr EXCEPT ![t] = [call EXCEPT !.pc = "waiting", !.pid = pid]]
    /\ UNCHANGED <<ctxs, heap, supplied, rn>>
    /\ UNCHANGED trimVars

ProcWrite(pid, fd, ch, max) ==
    /\ procs[pid].st = "running"
    /\ Len(procs[pid].out) < max
    /\ procs' = [procs EXCEPT ![pid].out = Append(@, [fd |-> fd, ch |-> ch])]
    /\ UNCHANGED <<ctxs, heap, supplied, rn, thr, launches>>
    /\ UNCHANGED trimVars

ProcExit(pid, code) ==
    /\ procs[pid].st = "running"
    /\ procs' = [procs EXCEPT ![pid].st = "exited", ![pid].code = code]
    /\ UNCHANGED <<ctxs, heap, supplied, rn, thr, launches>>
    /\ UNCHANGED trimVars

\* the context is canceled ("canceled") or its deadline passes ("deadline")
Cancel(c, why) ==
    /\ ctxs[c] = "none"
    /\ ctxs' = [ctxs EXCEPT ![c] = why]
    /\ procs' = [p \in Pids |->
                   IF procs[p].st = "running" /\ procs[p].ctx = c
                   THEN [procs[p] EXCEPT !.cwr = TRUE] ELSE procs[p]]
    /\ UNCHANGED <<heap, supplied, rn, thr, launches>>
    /\ UNCHANGED trimVars

\* os/exec's context watcher: once the context is done it kills the process;
\* a process that had just ended by itself takes the signal without effect
WatchCtx(pid) ==
    /\ procs[pid].st \in {"running", "exited"}
    /\ procs[pid].sig = "none"
    /\ ctxs[procs[pid].ctx] # "none"
    /\ procs' = [procs EXCEPT ![pid].sig = ctxs[procs[pid].ctx],
                              ![pid].st = IF @ = "running" THEN "killed" ELSE @]
    /\ UNCHANGED <<ctxs, heap, supplied, rn, thr, launches>>
    /\ UNCHANGED trimVars

\* a Wait that would also wait for every other caller's process
CanReturnGlobal(t) ==
    \A u \in Threads : thr[u].pc = "waiting" => procs[thr[u].pid].st \in {"exited", "killed"}

\* Cmd.Wait blocks until the call's own process has ended
CanReturn(t) == procs[thr[t].pid].st \in {"exited", "killed"}

\* Cmd.Wait returns; the rest of the method runs and the call returns
Return(t) ==
    /\ thr[t].pc = "waiting"
    /\ CanReturn(t)
    /\ LET p == procs[thr[t].pid]
       IN  /\ thr' = [thr EXCEPT ![t] =
                  Returned(thr[t], Ended(p), p)]
           /\ procs' = [procs EXCEPT ![thr[t].pid] = NoProc]
    /\ UNCHANGED <<ctxs, heap, supplied, rn, launches>>
    /\ UNCHANGED trimVars

(* ------------------- RunStdoutStr and its modifiers -------------------- *)
StrCuts == {<<"a">>, <<"b">>, <<"a", "b">>}
UnknownOption == PostModifierTrimBoth + 1
StrModifiers ==
    {NewTrimPostModifier(o, c) :
        o \in {PostModifierTrimRight, PostModifierTrimLeft, PostModifierTrimBoth}, c \in StrCuts}
    \cup {NewTrimPostModifier(UnknownOption, <<"a">>)}

\* one Runnable, made by Command(c1, "p", "x")
InitStr ==
    /\ TrimIdle
    /\ ctxs = [c \in Ctxs |-> "none"]
    /\ heap = [a \in {"caller"} \cup Rns |-> IF a = "caller" THEN CallerSlice
                                            ELSE IF a = "r1" THEN <<"x">> ELSE <<>>]
    /\ supplied = [r \in Rns |-> IF r = "r1" THEN <<"x">> ELSE <<>>]
    /\ rn = [r \in Rns |-> IF r = "r1" THEN commandRequest("c1", "p", "r1") ELSE NoRequest]
    /\ thr = [t \in Threads |-> Idle]
    /\ procs = [p \in Pids |-> NoProc]
    /\ launches = 0

\* the one RunStdoutStr call of a behaviour
CallRunStdoutStr(modifiers, found) ==
    /\ launches = 0
    /\ Launch("t1", "r1", "RunStdoutStr", modifiers, NoSinks, found)

NextStr ==
    \/ \E ms \in SeqsUpTo(StrModifiers, MaxMods), found \in BOOLEAN : CallRunStdoutStr(ms, found)
    \/ \E pid \in Pids, ch \in Alphabet : ProcWrite(pid, "stdout", ch, MaxCap)
    \/ \E pid \in Pids, code \in ExitCodes : ProcExit(pid, code)
    \/ Return("t1")

SpecStr == InitStr /\ [][NextStr]_vars

(* ------------------ the factory and calls on its Runnable --------------- *)
SmallModLists ==
    {<<NewTrimPostModifier(PostModifierTrimRight, <<"a">>)>>,
     <<NewTrimPostModifier(UnknownOption, <<"a">>)>>}
\* RunToWriter's sinks: none, stdout only, or both
Sinks == {w \in [Fds -> BOOLEAN] : w["stderr"] => w["stdout"]}

CallShapes ==
    {[m |-> m, mods |-> <<>>, w |-> NoSinks] :
        m \in {"Run", "RunStdout", "RunCombined", "RunCombinedStr"}}
    \cup {[m |-> "RunStdoutStr", mods |-> ms, w |-> NoSinks] : ms \in SmallModLists}
    \cup {[m |-> "RunToWriter", mods |-> <<>>, w |-> w] : w \in Sinks}

InitFactory == TrimIdle /\ RunIdle

NextFactory ==
    \/ \E ctx \in Ctxs, cmd \in Cmds, args \in [1..Len(CallerSlice) -> ArgVals], spread \in BOOLEAN :
           Command("r1", ctx, cmd, args, spread)
    \/ \E i \in 1..Len(CallerSlice), v \in ArgVals : CallerMutate(i, v)
    \/ \E s \in CallShapes, found \in BOOLEAN : Launch("t1", "r1", s.m, s.mods, s.w, found)
    \/ \E pid \in Pids, fd \in Fds : ProcWrite(pid, fd, "a", MaxOut)
    \/ \E pid \in Pids, code \in ExitCodes : ProcExit(pid, code)
    \/ Return("t1")

SpecFactory == InitFactory /\ [][NextFactory]_vars

(* ----------------------- concurrent Run* calls -------------------------- *)
\* two Runnables made independently: Command(c1, "p", "x") and
\* Command(c1 or c2, "q", "y")
InitRun ==
    /\ TrimIdle
    /\ ctxs = [c \in Ctxs |-> "none"]
    /\ heap = [a \in {"caller"} \cup Rns |-> IF a = "caller" THEN CallerSlice
                                            ELSE IF a = "r1" THEN <<"x">> ELSE <<"y">>]
    /\ supplied = [r \in Rns |-> IF r = "r1" THEN <<"x">> ELSE <<"y">>]
    /\ \E c \in Ctxs :
           rn = [r \in Rns |-> IF r = "r1" THEN commandRequest("c1", "p", "r1")
                                ELSE commandRequest(c, "q", "r2")]
    /\ thr = [t \in Threads |-> Idle]
    /\ procs = [p \in Pids |-> NoProc]
    /\ launches = 0

\* each thread calls the Runnable it made
RunnableOf(t) == IF t = "t1" THEN "r1" ELSE "r2"

\* c1 is a context its owner cancels, c2 one with a deadline
DoneReason(c) == IF c = "c1" THEN "canceled" ELSE "deadline"

NextRun ==
    \/ \E t \in Threads, m \in {"Run", "RunStdout"} :
           Launch(t, RunnableOf(t), m, <<>>, NoSinks, TRUE)
    \/ \E pid \in Pids : ProcWrite(pid, "stdout", "a", MaxOut)
    \/ \E pid \in Pids, code \in ExitCodes : ProcExit(pid, code)
    \/ \E c \in Ctxs : Cancel(c, DoneReason(c))
    \/ \E pid \in Pids : WatchCtx(pid)
    \/ \E t \in Threads : Return(t)

SpecRun == InitRun /\ [][NextRun]_vars

(* ============================== claims ================================= *)
KnownOptions == {PostModifierTrimRight, PostModifierTrimLeft, PostModifierTrimBoth}

\* C6: with an option other than trim-right, trim-left or trim-both, process
\* returns a non-nil error and the empty string whatever the content and the
\* trim character set; with a known option it never returns an error.
C6_UnknownOptionFails ==
    \A res \in {tr1, tr2} :
        res.done =>
            IF tm.trimOpt \in KnownOptions THEN IsNil(res.err)
            ELSE ~IsNil(res.err) /\ res.out = <<>>

C6_Witness ==
    /\ tr1.done
    /\ tm.trimOpt \notin KnownOptions
    /\ tin # <<>>
    /\ tm.trimChar # <<>>

\* C7: with a known option, process applied to its own output returns that
\* output again, and neither application returns an error.
C7_Idempotent ==
    (tr2.done /\ tm.trimOpt \in KnownOptions) =>
        /\ tr2.out = tr1.out
        /\ IsNil(tr1.err)
        /\ IsNil(tr2.err)

C7_Witness ==
    /\ tr2.done
    /\ tm.trimOpt \in KnownOptions
    /\ Len(tr1.out) < Len(tin) - 1
    /\ tr1.out # <<>>

\* a RunStdoutStr call that has returned, its capture and whether it succeeded
StrCall(t) == thr[t].pc = "returned" /\ thr[t].m = "RunStdoutStr"
CaptureOk(t) == IsNil(thr[t].x.err)
Capture(t) == String(Stream(thr[t].x.out, "stdout"))

\* C1: after a successful capture the modifiers are called in the order
\* given, each on the previous one's output (the first on the decoded
\* capture); at the first failing modifier the calls stop, the error
\* returned is non-nil and contains that modifier's error and the string
\* returned is the failing modifier's input; when none fails the string is
\* the last modifier's output and the error is nil.
C1_ModifierPipeline ==
    \A t \in Threads :
        (StrCall(t) /\ CaptureOk(t)) =>
            LET ms == thr[t].mods
                lg == thr[t].log
                n == Len(lg)
            IN  /\ n <= Len(ms)
                /\ \A j \in 1..n :
                       /\ lg[j].i = j
                       /\ lg[j].in = IF j = 1 THEN Capture(t)
                                     ELSE process(ms[j - 1], lg[j - 1].in).out
                /\ \A j \in 1..(n - 1) : IsNil(process(ms[j], lg[j].in).err)
                /\ IF n > 0 /\ ~IsNil(process(ms[n], lg[n].in).err)
                   THEN /\ ~IsNil(thr[t].err)
                        /\ Contains(thr[t].err, process(ms[n], lg[n].in).err)
                        /\ thr[t].out = lg[n].in
                   ELSE /\ n = Len(ms)
                        /\ IsNil(thr[t].err)
                        /\ thr[t].out = IF n = 0 THEN Capture(t)
                                        ELSE process(ms[n], lg[n].in).out

\* the first of two modifiers failed on a non-empty capture
C1_Witness ==
    /\ StrCall("t1") /\ CaptureOk("t1")
    /\ Len(thr["t1"].mods) = 2
    /\ Len(thr["t1"].log) = 1
    /\ ~IsNil(thr["t1"].err)
    /\ thr["t1"].out # <<>>

\* C2 as stated: when a modifier fails, the string returned is the decoded
\* capture exactly as RunStdout produced it.
C2_OriginalCapture ==
    \A t \in Threads :
        (StrCall(t) /\ CaptureOk(t) /\ ~IsNil(thr[t].err)) => thr[t].out = Capture(t)

RECURSIVE ApplyInOrder(_, _)
ApplyInOrder(ms, text) ==
    IF ms = <<>> THEN text ELSE ApplyInOrder(Tail(ms), process(ms[1], text).out)

\* C2 as amended: when a modifier fails, the string returned is the decoded
\* capture as the modifiers before the failing one left it; it is the
\* capture itself when the failing modifier is the first.
C2_TextBeforeFailure ==
    \A t \in Threads :
        (StrCall(t) /\ CaptureOk(t) /\ ~IsNil(thr[t].err)) =>
            LET k == Len(thr[t].log)
            IN  /\ k >= 1
                /\ thr[t].out = ApplyInOrder(SubSeq(thr[t].mods, 1, k - 1), Capture(t))
                /\ k = 1 => thr[t].out = Capture(t)

\* the second modifier failed after the first had changed the text
C2_Witness ==
    /\ StrCall("t1") /\ CaptureOk("t1")
    /\ ~IsNil(thr["t1"].err)
    /\ Len(thr["t1"].log) = 2
    /\ thr["t1"].out # Capture("t1")

\* C4: when RunStdout fails, no modifier is called and RunStdoutStr returns
\* the empty string with exactly RunStdout's error.
C4_CaptureFailure ==
    \A t \in Threads :
        (StrCall(t) /\ ~CaptureOk(t)) =>
            /\ thr[t].log = <<>>
            /\ thr[t].out = <<>>
            /\ thr[t].err = RunStdout(thr[t].x).err

\* the process wrote, then failed, and two modifiers were supplied
C4_Witness ==
    /\ StrCall("t1") /\ ~CaptureOk("t1")
    /\ Len(thr["t1"].mods) = 2
    /\ thr["t1"].x.out # <<>>

OutputMethods == {"RunStdout", "RunCombined", "RunStdoutStr", "RunCombinedStr"}

\* C3: an output-returning call that returns an error other than a
\* post-modifier failure returns the zero value (empty bytes or empty
\* string) as its output, even when the process had written before failing.
C3_ZeroOutputOnFailure ==
    \A t \in Threads :
        (/\ thr[t].pc = "returned"
         /\ thr[t].m \in OutputMethods
         /\ ~IsNil(thr[t].err)
         /\ ~thr[t].err.join) => thr[t].out = <<>>

CallStarts(t) == thr[t].pc # "waiting" /\ thr'[t] # thr[t]
CallReturns(t) == thr[t].pc = "waiting" /\ thr'[t].pc = "returned"
Live(ps) == {p \in Pids : ps[p].st # "free"}

\* C8: Command hands nothing to os/exec; every Run* call hands it exactly
\* one command, built from the Runnable's bound context, program and
\* arguments in their order, starting at most one process; no step of a call
\* changes the Runnable's request or the arguments it points to, and a call
\* that has returned leaves no process behind.
C8_OneLaunchPerCall ==
    [][/\ rn' # rn => (launches' = launches /\ procs' = procs /\ thr' = thr)
       /\ launches' # launches => \E t \in Threads : CallStarts(t)
       /\ \A t \in Threads :
              /\ CallStarts(t) =>
                     LET e == rn[thr'[t].r]
                     IN  /\ e.made
                         /\ launches' = launches + 1
                         /\ thr'[t].c.ctx = e.ctx
                         /\ thr'[t].c.cmd = e.cmd
                         /\ thr'[t].c.args = heap[e.args]
                         /\ Live(procs) \subseteq Live(procs')
                         /\ Cardinality(Live(procs')) <= Cardinality(Live(procs)) + 1
                         /\ thr'[t].pc = "waiting" <=> Live(procs') # Live(procs)
                         /\ rn' = rn /\ heap' = heap
              /\ CallReturns(t) =>
                     /\ launches' = launches
                     /\ thr'[t].c = thr[t].c
                     /\ Live(procs') = Live(procs) \ {thr[t].pid}
                     /\ rn' = rn /\ heap' = heap
      ]_vars

\* a second call on the same Runnable has returned, its two arguments differ
C8_Witness ==
    /\ launches = 2
    /\ thr["t1"].pc = "returned"
    /\ Len(thr["t1"].c.args) = 2
    /\ thr["t1"].c.args[1] # thr["t1"].c.args[2]
    /\ thr["t1"].ps.st # "free"

\* C10: the arguments every Run* call uses are the list given to Command,
\* even after the caller has written into the slice it passed.
C10_ArgsAsSupplied ==
    \A t \in Threads : thr[t].pc # "idle" => thr[t].c.args = supplied[thr[t].r]

\* C5: a call whose context became done while its process was running, the
\* process being terminated for it, returns a cancellation or deadline
\* error, not an exit error, and its process is not left running.
C5_CancellationError ==
    \A t \in Threads :
        (thr[t].pc = "returned" /\ thr[t].ps.cwr /\ thr[t].ps.st = "killed") =>
            /\ ErrKind(thr[t].err) = "ctx"
            /\ \A p \in Pids : procs[p].st = "running" => procs[p].owner # t

\* C9: of two Run() calls on Runnables made independently, neither blocks
\* the other: a call whose own process has ended can return and a caller
\* that is not in a call can start one, whatever the other call is doing;
\* and each call returns the outcome of the process it started itself.
C9_IndependentCalls ==
    \A t \in Threads :
        /\ (/\ thr[t].pc = "waiting"
            /\ procs[thr[t].pid].st \in {"exited", "killed"}) => ENABLED Return(t)
        /\ (thr[t].pc # "waiting" /\ launches < MaxLaunch) =>
               ENABLED Launch(t, RunnableOf(t), "Run", <<>>, NoSinks, TRUE)
        /\ thr[t].pc = "waiting" => procs[thr[t].pid].owner = t
        /\ (thr[t].pc = "returned" /\ thr[t].m = "Run") =>
               /\ thr[t].err = thr[t].x.err
               /\ thr[t].ps.st # "free" =>
                      (thr[t].ps.owner = t /\ thr[t].err = WaitErr(thr[t].ps))

\* one Run() has returned while the other's process is still running
C9_Witness ==
    /\ thr["t1"].pc = "returned" /\ thr["t1"].m = "Run" /\ thr["t1"].ps.st # "free"
    /\ thr["t2"].pc = "waiting" /\ thr["t2"].m = "Run"
    /\ procs[thr["t2"].pid].st = "running"
    /\ thr["t1"].c.cmd # thr["t2"].c.cmd

====
